---- MODULE Spec2Model ----
(***************************************************************************)
(* The cooperative pursuit game of src/environment.py                      *)
(* (CooperativeChickenEnv: two pursuers, agent 1 = pursuer A and agent 2 = *)
(* pursuer B, and the chicken = the target) and the episode drivers of     *)
(* src/random_agents.py and src/a_star_agents.py that run it.              *)
(*                                                                         *)
(* Spec        the engine under an arbitrary caller: reset and step may be *)
(*             called at any time with any action value.                  *)
(* SpecSeeded  the same caller, passing a seed to reset.                   *)
(* SpecDriver  the engine as the episode drivers call it: reset, then step *)
(*             while neither flag is set and the loop limit is not hit.    *)
(* SpecHeuristic  the driver of src/heuristic_agents.py, whose agents step *)
(*             with the action choose_heuristic_action returns.            *)
(***************************************************************************)
EXTENDS Integers, FiniteSets, Sequences, TLC

(* ------------------------------ bounds -------------------------------- *)
\* grids of 1..MaxL rows and 1..MaxH columns, of at most MaxCells cells
MaxL == 2
MaxH == 3
MaxCells == 6
\* at most MaxWalls internal wall cells
MaxWalls == 1
\* max_episode_steps ranges over 1..MaxEpisodeSteps
MaxEpisodeSteps == 2
\* an arbitrary caller stops calling step once this many rounds were counted
MaxRounds == 2
\* reset is given no seed or a seed of 0 .. MaxSeed
MaxSeed == 1

\* __init__ is given at most MaxWallCoords internal wall coordinates
MaxWallCoords == 2

\* a_star_search runs on grids of 1..MaxSearchL rows and 1..MaxSearchH
\* columns with at most MaxSearchWalls wall cells
MaxSearchL == 3
MaxSearchH == 3
MaxSearchWalls == 2
MaxFleeL == 3
MaxFleeH == 3
MaxFleeWalls == 1
MaxFleeCells == 9

(* ------------------------- program constants -------------------------- *)
ACTION_STAY == 0
ACTION_NORTH == 1
ACTION_SOUTH == 2
ACTION_WEST == 3
ACTION_EAST == 4

ACTION_DELTAS ==
    [a \in {ACTION_STAY, ACTION_NORTH, ACTION_SOUTH, ACTION_WEST, ACTION_EAST} |->
        CASE a = ACTION_STAY -> <<0, 0>>
          [] a = ACTION_NORTH -> <<-1, 0>>
          [] a = ACTION_SOUTH -> <<1, 0>>
          [] a = ACTION_WEST -> <<0, -1>>
          [] a = ACTION_EAST -> <<0, 1>>]

capture_reward == 100
step_penalty == -1

\* the value of info["current_player_to_act"] that names no next player
NO_NEXT_PLAYER == -1

\* a position attribute that holds None (before the first reset)
None == <<>>

(* ------------------------------- state -------------------------------- *)
VARIABLES
    L, H, walls, max_episode_steps,         \* configuration, fixed by __init__
    agent1_pos, agent2_pos, chicken_pos,    \* entity positions <<row, col>>
    current_player_idx,                     \* 0: agent 1 to move, 1: agent 2
    current_step_in_episode,                \* completed A1-A2-chicken rounds
    call,                                   \* the last call made on the engine
    ret,                                    \* what that call returned or raised
    pc, terminated, truncated,              \* the driver: position and flags
    current_loop_iter,                      \* the driver's loop counter
    history_log,                            \* the driver's list of records
    search_pc,                              \* a_star_search: position in the call
    start_pos, goal_pos,                    \* a_star_search: its arguments
    open_list, closed_set, current_node,    \* a_star_search: its locals
    search_result                           \* a_star_search: the action returned

cfgVars == <<L, H, walls, max_episode_steps>>
envVars == <<agent1_pos, agent2_pos, chicken_pos, current_player_idx,
             current_step_in_episode>>
apiVars == <<call, ret>>
drvVars == <<pc, terminated, truncated, current_loop_iter, history_log>>
searchVars == <<search_pc, start_pos, goal_pos, open_list, closed_set,
                current_node, search_result>>
vars == <<cfgVars, envVars, apiVars, drvVars, searchVars>>

(* ------------------------------ helpers ------------------------------- *)
Abs(x) == IF x < 0 THEN -x ELSE x

_manhattan_distance(pos1, pos2) ==
    Abs(pos1[1] - pos2[1]) + Abs(pos1[2] - pos2[2])

InBounds(r, c) == 0 <= r /\ r < L /\ 0 <= c /\ c < H

\* mutant: the wall test is dropped
_is_valid_pos_NoWalls(r, c) == InBounds(r, c)

_is_valid_pos(r, c) == InBounds(r, c) /\ <<r, c>> \notin walls

Cells(l, h) == (0 .. l - 1) \X (0 .. h - 1)

\* the cells _place_entities collects: every non-wall cell of the grid
available_cells == Cells(L, H) \ walls

\* the cell an action aims at, before any validity check
Intended(pos, action) ==
    <<pos[1] + ACTION_DELTAS[action][1], pos[2] + ACTION_DELTAS[action][2]>>

\* mutant: a cell another entity stands on blocks the move like a wall
MovedPos_BlockedByEntities(pos, action) ==
    IF /\ _is_valid_pos(Intended(pos, action)[1], Intended(pos, action)[2])
       /\ Intended(pos, action) \notin {agent1_pos, agent2_pos, chicken_pos}
        THEN Intended(pos, action)
        ELSE pos

\* mutant: the move is applied without the validity check
MovedPos_Unchecked(pos, action) == Intended(pos, action)

\* the acting agent's position after its move: absorbed by walls and bounds
MovedPos(pos, action) ==
    LET new == Intended(pos, action)
    IN  IF _is_valid_pos(new[1], new[2]) THEN new ELSE pos

\* mutant: an agent next to the chicken after its move captures it too
Captured_Adjacent(player, a1_pos, a2_pos, c_pos) ==
    \/ player = 0 /\ _manhattan_distance(a1_pos, c_pos) <= 1
    \/ player = 1 /\ _manhattan_distance(a2_pos, c_pos) <= 1

\* mutant: only agent 2's move is checked for capture
Captured_OnlyAgent2(player, a1_pos, a2_pos, c_pos) ==
    player = 1 /\ a2_pos = c_pos

\* mutant: only agent 1 can capture
Captured_OnlyAgent1(player, a1_pos, a2_pos, c_pos) ==
    player = 0 /\ a1_pos = c_pos

\* the capture check of step, made on the positions after the agent's move
Captured(player, a1_pos, a2_pos, c_pos) ==
    \/ player = 0 /\ a1_pos = c_pos
    \/ player = 1 /\ a2_pos = c_pos

\* mutant: the capture bonus replaces the penalty instead of adding to it
StepReward_BonusOnly(term) ==
    IF term THEN capture_reward ELSE step_penalty

\* the reward of a step: the penalty, plus the bonus on capture
StepReward(term) ==
    IF term THEN step_penalty + capture_reward ELSE step_penalty

\* mutant: the early return on capture is missing
RoundCompleted_NoEarlyReturn(player, term) == player # 0

\* mutant: every step that does not capture counts as a round
RoundCompleted_EveryStep(player, term) == ~term

\* whether the step runs the branch that completes a round: the chicken
\* moves and the round counter grows
RoundCompleted(player, term) == ~term /\ player # 0

\* mutant: a capture stores the value that names no next player
NextPlayerIdx_NoPlayerAfterCapture(player, term) ==
    IF term THEN NO_NEXT_PLAYER ELSE IF player = 0 THEN 1 ELSE 0

\* mutant: the turn passes to agent 2 and never comes back
NextPlayerIdx_NoReturnToAgent1(player, term) ==
    IF term THEN player ELSE 1

\* the turn index the step leaves behind
NextPlayerIdx(player, term) ==
    IF term THEN player ELSE IF player = 0 THEN 1 ELSE 0

\* mutant: the comparison with the step limit is strict
Truncates_Strict(completed, rounds) == completed /\ rounds > max_episode_steps

\* the truncation check, made only where a round was completed
Truncates(completed, rounds) == completed /\ rounds >= max_episode_steps

\* info["current_player_to_act"] of the step's return value
InfoPlayer(term, idx_after) == IF term THEN NO_NEXT_PLAYER ELSE idx_after

\* info["status"] of the step's return value ("" when the key is absent)
InfoStatus(term, trunc) ==
    IF term THEN "capture" ELSE IF trunc THEN "truncated" ELSE ""

(* ------------------------- the chicken's move ------------------------- *)
\* mutant: only the four moves are enumerated, Stay is left out
ValidNextPositions_NoStay(c_pos) ==
    {p \in {Intended(c_pos, a) : a \in DOMAIN ACTION_DELTAS \ {ACTION_STAY}} :
        _is_valid_pos(p[1], p[2])}

\* valid_next_positions_deltas: the valid cells among the 5 moves
ValidNextPositions(c_pos) ==
    {p \in {Intended(c_pos, a) : a \in DOMAIN ACTION_DELTAS} :
        _is_valid_pos(p[1], p[2])}

\* mutant: the secondary key is not compared
TupleGE_FirstOnly(x, y) == x[1] >= y[1]

\* the order of the key (nd1, nd2) used when both agents are equidistant
TupleGE(x, y) == x[1] > y[1] \/ (x[1] = y[1] /\ x[2] >= y[2])

\* mutant: the chicken flees agent 1 whichever agent is nearer
CandidateMoves_FleeAgent1(c_pos, a1_pos, a2_pos) ==
    LET valid == ValidNextPositions(c_pos)
    IN  {p \in valid : \A q \in valid :
            _manhattan_distance(p, a1_pos) >= _manhattan_distance(q, a1_pos)}

\* candidate_moves: the cells tied at the best key of the applicable branch
CandidateMoves(c_pos, a1_pos, a2_pos) ==
    LET valid == ValidNextPositions(c_pos)
        nd1(p) == _manhattan_distance(p, a1_pos)
        nd2(p) == _manhattan_distance(p, a2_pos)
        d_c_a1_curr == _manhattan_distance(c_pos, a1_pos)
        d_c_a2_curr == _manhattan_distance(c_pos, a2_pos)
    IN  IF d_c_a1_curr < d_c_a2_curr
            THEN {p \in valid : \A q \in valid : nd1(p) >= nd1(q)}
        ELSE IF d_c_a2_curr < d_c_a1_curr
            THEN {p \in valid : \A q \in valid : nd2(p) >= nd2(q)}
        ELSE {p \in valid : \A q \in valid :
                  TupleGE(<<nd1(p), nd2(p)>>, <<nd1(q), nd2(q)>>)}

\* mutant: the head of the sorted list is taken, with no random choice
_chicken_move_FirstCandidate(c_pos, a1_pos, a2_pos) ==
    IF ValidNextPositions(c_pos) = {} \/ CandidateMoves(c_pos, a1_pos, a2_pos) = {}
        THEN {c_pos}
        ELSE {CHOOSE p \in CandidateMoves(c_pos, a1_pos, a2_pos) : TRUE}

\* the cells _chicken_move can leave the chicken on (random.choice among the
\* candidates; the chicken stays when there is none)
_chicken_move(c_pos, a1_pos, a2_pos) ==
    IF ValidNextPositions(c_pos) = {} \/ CandidateMoves(c_pos, a1_pos, a2_pos) = {}
        THEN {c_pos}
        ELSE CandidateMoves(c_pos, a1_pos, a2_pos)

(* --------------------------- the engine ------------------------------- *)
\* the configurations __init__ accepts, within the bounds
Configs ==
    {cfg \in [L : 1 .. MaxL, H : 1 .. MaxH,
              walls : SUBSET Cells(MaxL, MaxH),
              max_episode_steps : 1 .. MaxEpisodeSteps] :
        /\ cfg.L * cfg.H <= MaxCells
        /\ cfg.walls \subseteq Cells(cfg.L, cfg.H)
        /\ Cardinality(cfg.walls) <= MaxWalls
        /\ cfg.L * cfg.H - Cardinality(cfg.walls) >= 3}

\* a node of a_star_search; path holds the actions found by following the
\* parent links back to the start node, first action first
NoNode == [position |-> None, g |-> 0, h |-> 0, f |-> 0, path |-> <<>>]

\* no a_star_search call is running
SearchIdle ==
    /\ search_pc = "idle"
    /\ start_pos = None
    /\ goal_pos = None
    /\ open_list = <<>>
    /\ closed_set = {}
    /\ current_node = NoNode
    /\ search_result = ACTION_STAY

NoReturn(err) ==
    [raised |-> err, reward |-> 0, terminated |-> FALSE, truncated |-> FALSE,
     current_player_to_act |-> NO_NEXT_PLAYER, status |-> ""]

Init ==
    /\ \E cfg \in Configs :
        /\ L = cfg.L
        /\ H = cfg.H
        /\ walls = cfg.walls
        /\ max_episode_steps = cfg.max_episode_steps
    /\ agent1_pos = None
    /\ agent2_pos = None
    /\ chicken_pos = None
    /\ current_player_idx = 0
    /\ current_step_in_episode = 0
    /\ call = [op |-> "__init__", action |-> ACTION_STAY, player |-> 0,
               pos_before |-> None]
    /\ ret = NoReturn("")
    /\ pc = "idle"
    /\ terminated = FALSE
    /\ truncated = FALSE
    /\ current_loop_iter = 0
    /\ history_log = <<>>
    /\ SearchIdle

\* mutant: the three cells are drawn with replacement
EnvReset_WithReplacement(seed) ==
    /\ \E pos_a1 \in available_cells :
       \E pos_a2 \in available_cells :
       \E pos_c \in available_cells :
            /\ agent1_pos' = pos_a1
            /\ agent2_pos' = pos_a2
            /\ chicken_pos' = pos_c
    /\ current_player_idx' = 0
    /\ current_step_in_episode' = 0
    /\ call' = [op |-> "reset", seed |-> seed, action |-> ACTION_STAY,
                player |-> 0, pos_before |-> None]
    /\ ret' = [raised |-> "", reward |-> 0, terminated |-> FALSE,
               truncated |-> FALSE, current_player_to_act |-> 0, status |-> ""]
    /\ UNCHANGED cfgVars

\* reset(seed): three distinct available cells, agent 1 to move, round counter
\* 0. super().reset(seed=seed) hands the seed to the generator gymnasium keeps
\* for the engine (self.np_random), which no line of the engine reads:
\* _place_entities draws from the random module's generator, whose state the
\* call does not set, so the cells drawn do not depend on the seed
EnvReset(seed) ==
    /\ \E pos_a1 \in available_cells :
       \E pos_a2 \in available_cells \ {pos_a1} :
       \E pos_c \in available_cells \ {pos_a1, pos_a2} :
            /\ agent1_pos' = pos_a1
            /\ agent2_pos' = pos_a2
            /\ chicken_pos' = pos_c
    /\ current_player_idx' = 0
    /\ current_step_in_episode' = 0
    /\ call' = [op |-> "reset", seed |-> seed, action |-> ACTION_STAY,
                player |-> 0, pos_before |-> None]
    /\ ret' = [raised |-> "", reward |-> 0, terminated |-> FALSE,
               truncated |-> FALSE, current_player_to_act |-> 0, status |-> ""]
    /\ UNCHANGED cfgVars

\* mutant: the turn is handed on before the arguments are looked at
StepRaises_AfterTurnChange(action, err) ==
    /\ call' = [op |-> "step", action |-> action, player |-> current_player_idx,
                pos_before |-> None]
    /\ ret' = NoReturn(err)
    /\ current_player_idx' = 1 - current_player_idx
    /\ UNCHANGED <<cfgVars, agent1_pos, agent2_pos, chicken_pos,
                   current_step_in_episode>>

\* a step call that raises: nothing of the engine is assigned before the raise
StepRaises(action, err) ==
    /\ call' = [op |-> "step", action |-> action, player |-> current_player_idx,
                pos_before |-> None]
    /\ ret' = NoReturn(err)
    /\ UNCHANGED <<cfgVars, envVars>>

\* step(action): the whole handler
EnvStep(action) ==
    LET player == current_player_idx
        agent_pos_before_move == IF player = 0 THEN agent1_pos ELSE agent2_pos
    IN
    IF player \notin {0, 1} THEN StepRaises(action, "ValueError")
    ELSE IF action \notin DOMAIN ACTION_DELTAS THEN StepRaises(action, "KeyError")
    ELSE IF agent_pos_before_move = None THEN StepRaises(action, "TypeError")
    ELSE
        LET new_pos == MovedPos(agent_pos_before_move, action)
            a1_pos == IF player = 0 THEN new_pos ELSE agent1_pos
            a2_pos == IF player = 0 THEN agent2_pos ELSE new_pos
            term == Captured(player, a1_pos, a2_pos, chicken_pos)
            completed == RoundCompleted(player, term)
            rounds == IF completed THEN current_step_in_episode + 1
                                   ELSE current_step_in_episode
            trunc == Truncates(completed, rounds)
            idx_after == NextPlayerIdx(player, term)
        IN
        /\ agent1_pos' = a1_pos
        /\ agent2_pos' = a2_pos
        /\ chicken_pos' \in (IF completed
                                THEN _chicken_move(chicken_pos, a1_pos, a2_pos)
                                ELSE {chicken_pos})
        /\ current_player_idx' = idx_after
        /\ current_step_in_episode' = rounds
        /\ call' = [op |-> "step", action |-> action, player |-> player,
                    pos_before |-> agent_pos_before_move]
        /\ ret' = [raised |-> "", reward |-> StepReward(term),
                   terminated |-> term, truncated |-> trunc,
                   current_player_to_act |-> InfoPlayer(term, idx_after),
                   status |-> InfoStatus(term, trunc)]
        /\ UNCHANGED cfgVars

\* the action values a caller may pass: the 5 actions and one value outside
ActionInputs == DOMAIN ACTION_DELTAS \cup {5}

(* ---------------------- an arbitrary caller --------------------------- *)
Reset == EnvReset(None) /\ UNCHANGED <<drvVars, searchVars>>

Step ==
    /\ current_step_in_episode < MaxRounds
    /\ \E action \in ActionInputs : EnvStep(action)
    /\ UNCHANGED <<drvVars, searchVars>>

Next == Reset \/ Step

Spec == Init /\ [][Next]_vars

(* ------------------- a caller that seeds reset ------------------------ *)
\* the seeds a caller may pass to reset: None, or an integer n, written <<n>>
SeedInputs == {None} \cup {<<n>> : n \in 0 .. MaxSeed}

ResetSeeded ==
    /\ \E seed \in SeedInputs : EnvReset(seed)
    /\ UNCHANGED <<drvVars, searchVars>>

NextSeeded == ResetSeeded \/ Step

SpecSeeded == Init /\ [][NextSeeded]_vars

(* ------------------------ the episode driver -------------------------- *)
max_loop_iters == max_episode_steps * 2 + 10

\* a record of history_log, by the fields that tell which call it logs and
\* how the episode stood after it: the agent that acted, the two flags and
\* the round counter
StepRecord(acting_agent, term, trunc, round_step) ==
    [acting_agent |-> acting_agent, terminated |-> term,
     truncated |-> trunc, round_step |-> round_step]

\* mutant: the record of a step replaces the last record of the list
HistoryAppend_Overwrite(log, record) == [log EXCEPT ![Len(log)] = record]

\* history_log.append(...)
HistoryAppend(log, record) == Append(log, record)

\* run_*_episode up to the loop: reset and the initial values of the locals
DriverStart ==
    /\ pc \in {"idle", "done"}
    /\ EnvReset(None)
    /\ terminated' = FALSE
    /\ truncated' = FALSE
    /\ current_loop_iter' = 0
    /\ history_log' = HistoryAppend(<<>>,
            StepRecord(ret'.current_player_to_act, FALSE, FALSE,
                       current_step_in_episode'))
    /\ pc' = "loop"
    /\ UNCHANGED searchVars

\* one iteration of the while loop whose body calls step; the agents' policy
\* is any of the 5 actions
DriverIter ==
    /\ pc = "loop"
    /\ ~terminated /\ ~truncated /\ current_loop_iter < max_loop_iters
    /\ ret.current_player_to_act \in {0, 1}
    /\ \E action \in DOMAIN ACTION_DELTAS : EnvStep(action)
    /\ terminated' = ret'.terminated
    /\ truncated' = (ret'.truncated \/
                        (current_loop_iter + 1 >= max_loop_iters
                            /\ ~ret'.terminated /\ ~ret'.truncated))
    /\ current_loop_iter' = current_loop_iter + 1
    /\ history_log' = HistoryAppend(history_log,
            StepRecord(ret.current_player_to_act, terminated', truncated',
                       current_step_in_episode'))
    /\ pc' = "loop"
    /\ UNCHANGED searchVars

\* the loop ends: its condition is false, or info names no player (break)
DriverExit ==
    /\ pc = "loop"
    /\ \/ terminated \/ truncated \/ current_loop_iter >= max_loop_iters
       \/ ret.current_player_to_act \notin {0, 1}
    /\ pc' = "done"
    /\ UNCHANGED <<cfgVars, envVars, apiVars, terminated, truncated,
                   current_loop_iter, history_log, searchVars>>

NextDriver == DriverStart \/ DriverIter \/ DriverExit

SpecDriver == Init /\ [][NextDriver]_vars

(* --------------------------- construction ----------------------------- *)
\* self.walls: the set built from the coordinates given
WallSet(internal_wall_coords) ==
    {internal_wall_coords[i] : i \in 1 .. Len(internal_wall_coords)}

\* mutant: the coordinates are counted as given, duplicates included
num_available_cells_Listed(l, h, internal_wall_coords) ==
    l * h - Len(internal_wall_coords)

num_available_cells(l, h, internal_wall_coords) ==
    l * h - Cardinality(WallSet(internal_wall_coords))

\* whether __init__ raises ValueError, by its three checks in their order
InitRaises(l, h, internal_wall_coords) ==
    IF l < 1 \/ h < 1 THEN TRUE
    ELSE IF \E i \in 1 .. Len(internal_wall_coords) :
                LET r == internal_wall_coords[i][1]
                    c == internal_wall_coords[i][2]
                IN  ~(0 <= r /\ r < l /\ 0 <= c /\ c < h)
        THEN TRUE
    ELSE num_available_cells(l, h, internal_wall_coords) < 3

\* the sequences of at most n elements of S
SeqsUpTo(S, n) == UNION {[1 .. k -> S] : k \in 0 .. n}

\* the arguments given to __init__: dimensions and coordinates in and around
\* the bounds (no coordinates stands for None as well as for an empty list)
CtorInputs ==
    [L : -1 .. MaxL, H : -1 .. MaxH,
     internal_wall_coords :
        SeqsUpTo((-1 .. MaxL) \X (-1 .. MaxH), MaxWallCoords)]

\* no engine exists yet: a call of CooperativeChickenEnv(...) is about to run
InitCtor ==
    /\ \E args \in CtorInputs :
        call = [op |-> "new", L |-> args.L, H |-> args.H,
                internal_wall_coords |-> args.internal_wall_coords]
    /\ ret = NoReturn("")
    /\ L = 0 /\ H = 0 /\ walls = {} /\ max_episode_steps = 0
    /\ agent1_pos = None /\ agent2_pos = None /\ chicken_pos = None
    /\ current_player_idx = 0
    /\ current_step_in_episode = 0
    /\ pc = "idle" /\ terminated = FALSE /\ truncated = FALSE
    /\ current_loop_iter = 0
    /\ history_log = <<>>
    /\ SearchIdle

\* __init__: raises and leaves the caller without an engine, or builds it
EnvNew ==
    /\ call.op = "new"
    /\ call' = [call EXCEPT !.op = "__init__"]
    /\ IF InitRaises(call.L, call.H, call.internal_wall_coords)
          THEN /\ ret' = NoReturn("ValueError")
               /\ UNCHANGED <<L, H, walls, max_episode_steps>>
          ELSE /\ ret' = [NoReturn("") EXCEPT !.current_player_to_act = 0]
               /\ L' = call.L
               /\ H' = call.H
               /\ walls' = WallSet(call.internal_wall_coords)
               /\ max_episode_steps' = 1
    /\ UNCHANGED <<envVars, drvVars, searchVars>>

NextCtor == EnvNew

SpecCtor == InitCtor /\ [][NextCtor]_vars

(* ---------------------------- a_star_search -------------------------- *)
\* heapq on a list of nodes ordered by Node.__lt__ (self.f < other.f); list
\* index i of the code is element i + 1 of the sequence
\* mutant: the comparison is reversed, which makes the heap a max-heap
NodeLt_Reversed(self, other) == self.f > other.f

\* Node.__lt__
NodeLt(self, other) == self.f < other.f

RECURSIVE SiftDownLoop(_, _, _, _)
SiftDownLoop(heap, startpos, pos, newitem) ==
    IF pos > startpos
        THEN LET parentpos == (pos - 1) \div 2
                 parent == heap[parentpos + 1]
             IN  IF NodeLt(newitem, parent)
                    THEN SiftDownLoop([heap EXCEPT ![pos + 1] = parent],
                                      startpos, parentpos, newitem)
                    ELSE [heap EXCEPT ![pos + 1] = newitem]
        ELSE [heap EXCEPT ![pos + 1] = newitem]

_siftdown(heap, startpos, pos) ==
    SiftDownLoop(heap, startpos, pos, heap[pos + 1])

RECURSIVE SiftUpLoop(_, _, _, _, _)
SiftUpLoop(heap, startpos, pos, childpos, newitem) ==
    IF childpos < Len(heap)
        THEN LET rightpos == childpos + 1
                 smaller == IF rightpos < Len(heap)
                               /\ ~NodeLt(heap[childpos + 1], heap[rightpos + 1])
                               THEN rightpos ELSE childpos
             IN  SiftUpLoop([heap EXCEPT ![pos + 1] = heap[smaller + 1]],
                            startpos, smaller, 2 * smaller + 1, newitem)
        ELSE _siftdown([heap EXCEPT ![pos + 1] = newitem], startpos, pos)

_siftup(heap, pos) == SiftUpLoop(heap, pos, pos, 2 * pos + 1, heap[pos + 1])

heappush(heap, item) == _siftdown(Append(heap, item), 0, Len(heap))

\* heappop: the item returned and the list left behind
HeapTop(heap) == heap[1]

HeapRest(heap) ==
    IF Len(heap) = 1 THEN <<>>
    ELSE _siftup([SubSeq(heap, 1, Len(heap) - 1) EXCEPT ![1] = heap[Len(heap)]], 0)

RECURSIVE HeapifyFrom(_, _)
HeapifyFrom(heap, i) ==
    IF i < 0 THEN heap ELSE HeapifyFrom(_siftup(heap, i), i - 1)

heapify(heap) == HeapifyFrom(heap, (Len(heap) \div 2) - 1)

\* Node(position, parent, action_from_parent) with its g, h and f filled in
NewNode(position, parent, action_val, goal) ==
    LET g == parent.g + 1
        h == _manhattan_distance(position, goal)
    IN  [position |-> position, g |-> g, h |-> h, f |-> g + h,
         path |-> Append(parent.path, action_val)]

StartNode(start, goal) ==
    LET h == _manhattan_distance(start, goal)
    IN  [position |-> start, g |-> 0, h |-> h, f |-> h, path |-> <<>>]

\* mutant: the open list is not searched, every successor counts as new
IndexInOpen_NeverFound(open, position) == 0

\* the first index of the open list whose node has this position, 0 if none
IndexInOpen(open, position) ==
    IF \E i \in 1 .. Len(open) : open[i].position = position
        THEN CHOOSE i \in 1 .. Len(open) :
                /\ open[i].position = position
                /\ \A j \in 1 .. i - 1 : open[j].position # position
        ELSE 0

\* mutant: the entry found in the open list is kept whatever the new cost
RelaxOpen_KeepOld(open, i, neighbor_node) == open

\* a successor found in the open list at index i: the entry is replaced, and
\* the list heapified, when the new path is strictly cheaper
RelaxOpen(open, i, neighbor_node) ==
    IF neighbor_node.g < open[i].g
        THEN heapify([open EXCEPT ![i] = neighbor_node])
        ELSE open

\* mutant: the closed set is not consulted
SkipNeighbor_IgnoreClosed(neighbor_pos, closed) ==
    ~_is_valid_pos(neighbor_pos[1], neighbor_pos[2])

\* the two tests that make the expansion skip a successor
SkipNeighbor(neighbor_pos, closed) ==
    \/ ~_is_valid_pos(neighbor_pos[1], neighbor_pos[2])
    \/ neighbor_pos \in closed

\* the body of the for loop over ACTION_DELTAS, for one action
ExpandAction(open, closed, node, action_val, goal) ==
    LET neighbor_pos == Intended(node.position, action_val)
    IN  IF SkipNeighbor(neighbor_pos, closed) THEN open
        ELSE LET neighbor_node == NewNode(neighbor_pos, node, action_val, goal)
                 i == IndexInOpen(open, neighbor_pos)
             IN  IF i # 0 THEN RelaxOpen(open, i, neighbor_node)
                           ELSE heappush(open, neighbor_node)

\* the for loop over ACTION_DELTAS, in the order of the dictionary
RECURSIVE ExpandFrom(_, _, _, _, _)
ExpandFrom(open, closed, node, action_val, goal) ==
    IF action_val > ACTION_EAST THEN open
    ELSE ExpandFrom(ExpandAction(open, closed, node, action_val, goal),
                    closed, node, action_val + 1, goal)

\* mutant: the last action of the path is returned instead of the first
FirstAction_Last(node) ==
    IF node.path = <<>> THEN ACTION_STAY ELSE node.path[Len(node.path)]

\* mutant: a path of one action is taken for an empty one
FirstAction_StayOnShortPath(node) ==
    IF Len(node.path) <= 1 THEN ACTION_STAY ELSE node.path[1]

\* the value returned when the goal node is popped: the first action of the
\* reconstructed path, Stay when the goal node is the start node
FirstAction(node) ==
    IF node.path = <<>> THEN ACTION_STAY ELSE node.path[1]

\* the grids a_star_search is run on
SearchConfigs ==
    {cfg \in [L : 1 .. MaxSearchL, H : 1 .. MaxSearchH,
              walls : SUBSET Cells(MaxSearchL, MaxSearchH)] :
        /\ cfg.walls \subseteq Cells(cfg.L, cfg.H)
        /\ Cardinality(cfg.walls) <= MaxSearchWalls
        /\ cfg.L * cfg.H - Cardinality(cfg.walls) >= 3}

\* an engine on one of these grids, on the obstacle-free 5 x 5 grid, or on a
\* 4 x 4 grid whose walls make the search reach a frontier cell a second time
\* by a cheaper path, and a call a_star_search(start_pos, goal_pos, env) about
\* to run on two of its free cells
InitSearch ==
    /\ \/ \E cfg \in SearchConfigs :
            /\ L = cfg.L /\ H = cfg.H /\ walls = cfg.walls
            /\ start_pos \in Cells(cfg.L, cfg.H) \ cfg.walls
            /\ goal_pos \in Cells(cfg.L, cfg.H) \ cfg.walls
       \/ /\ L = 5 /\ H = 5 /\ walls = {}
          /\ start_pos = <<0, 0>>
          /\ goal_pos = <<4, 4>>
       \/ /\ L = 4 /\ H = 4 /\ walls = {<<0, 1>>, <<1, 0>>, <<2, 2>>}
          /\ start_pos = <<2, 3>>
          /\ goal_pos = <<0, 0>>
    /\ max_episode_steps = 1
    /\ agent1_pos = None /\ agent2_pos = None /\ chicken_pos = None
    /\ current_player_idx = 0
    /\ current_step_in_episode = 0
    /\ call = [op |-> "__init__", action |-> ACTION_STAY, player |-> 0,
               pos_before |-> None]
    /\ ret = NoReturn("")
    /\ pc = "idle" /\ terminated = FALSE /\ truncated = FALSE
    /\ current_loop_iter = 0
    /\ history_log = <<>>
    /\ search_pc = "call"
    /\ open_list = <<>>
    /\ closed_set = {}
    /\ current_node = NoNode
    /\ search_result = ACTION_STAY

\* a_star_search up to its loop: the start node is pushed
AStarCall ==
    /\ search_pc = "call"
    /\ open_list' = heappush(<<>>, StartNode(start_pos, goal_pos))
    /\ closed_set' = {}
    /\ search_pc' = "loop"
    /\ UNCHANGED <<cfgVars, envVars, apiVars, drvVars, start_pos, goal_pos,
                   current_node, search_result>>

\* one test of the while condition and, if it holds, one run of the body:
\* pop, return at the goal, else close the node and expand it
AStarIter ==
    /\ search_pc = "loop"
    /\ IF open_list = <<>>
          THEN /\ search_result' = ACTION_STAY
               /\ search_pc' = "done"
               /\ UNCHANGED <<open_list, closed_set, current_node>>
          ELSE LET node == HeapTop(open_list)
                   rest == HeapRest(open_list)
               IN  /\ current_node' = node
                   /\ IF node.position = goal_pos
                         THEN /\ search_result' = FirstAction(node)
                              /\ search_pc' = "done"
                              /\ open_list' = rest
                              /\ UNCHANGED closed_set
                         ELSE /\ closed_set' = closed_set \cup {node.position}
                              /\ open_list' =
                                    ExpandFrom(rest,
                                               closed_set \cup {node.position},
                                               node, ACTION_STAY, goal_pos)
                              /\ UNCHANGED <<search_result, search_pc>>
    /\ UNCHANGED <<cfgVars, envVars, apiVars, drvVars, start_pos, goal_pos>>

NextSearch == AStarCall \/ AStarIter

SpecSearch == InitSearch /\ [][NextSearch]_vars

(* ---------------------------- _chicken_move -------------------------- *)
\* the grids on which the chicken's move is examined
FleeConfigs ==
    {cfg \in [L : 1 .. MaxFleeL, H : 1 .. MaxFleeH,
              walls : SUBSET Cells(MaxFleeL, MaxFleeH)] :
        /\ cfg.L * cfg.H <= MaxFleeCells
        /\ cfg.walls \subseteq Cells(cfg.L, cfg.H)
        /\ Cardinality(cfg.walls) <= MaxFleeWalls
        /\ cfg.L * cfg.H - Cardinality(cfg.walls) >= 3}

\* step at the call of _chicken_move: agent 2 has moved and has not captured,
\* so all three entities are on free cells and the chicken shares its cell
\* with no agent (agent 1 did not capture either); the agents may share one
InitChicken ==
    /\ \E cfg \in FleeConfigs :
        /\ L = cfg.L /\ H = cfg.H /\ walls = cfg.walls
        /\ agent1_pos \in Cells(cfg.L, cfg.H) \ cfg.walls
        /\ agent2_pos \in Cells(cfg.L, cfg.H) \ cfg.walls
        /\ chicken_pos \in Cells(cfg.L, cfg.H) \ cfg.walls
        /\ chicken_pos \notin {agent1_pos, agent2_pos}
    /\ max_episode_steps = 1
    /\ current_player_idx = 1
    /\ current_step_in_episode = 0
    /\ call = [op |-> "step", c_pos |-> None]
    /\ ret = NoReturn("")
    /\ pc = "idle" /\ terminated = FALSE /\ truncated = FALSE
    /\ current_loop_iter = 0
    /\ history_log = <<>>
    /\ SearchIdle

\* self._chicken_move(): the chicken is put on one of the cells the method
\* can choose; call records the method and the chicken's cell at its entry
ChickenMove ==
    /\ call.op = "step"
    /\ chicken_pos' \in _chicken_move(chicken_pos, agent1_pos, agent2_pos)
    /\ call' = [op |-> "_chicken_move", c_pos |-> chicken_pos]
    /\ UNCHANGED <<cfgVars, agent1_pos, agent2_pos, current_player_idx,
                   current_step_in_episode, ret, drvVars, searchVars>>

NextChicken == ChickenMove

SpecChicken == InitChicken /\ [][NextChicken]_vars

(* ---------------- a_star_search and _chicken_move calls --------------- *)
\* either of the two computations, from its call to its return
InitCalls == InitSearch \/ InitChicken

NextCalls == NextSearch \/ NextChicken

SpecCalls == InitCalls /\ [][NextCalls]_vars


(* -------------------------- heuristic agents -------------------------- *)
\* mutant: an action whose intended cell is not valid is left out
candidate_actions_ValidOnly(agent_pos, c_pos) ==
    SelectSeq([i \in 1 .. 5 |->
                <<_manhattan_distance(Intended(agent_pos, i - 1), c_pos), i - 1>>],
              LAMBDA x : _is_valid_pos(Intended(agent_pos, x[2])[1],
                                       Intended(agent_pos, x[2])[2]))

\* candidate_actions as the for loop fills it: (dist, action_val) for the 5
\* actions in the order of the dictionary, the intended cell left unchecked
candidate_actions(agent_pos, c_pos) ==
    [i \in 1 .. 5 |->
        <<_manhattan_distance(Intended(agent_pos, i - 1), c_pos), i - 1>>]

\* the order of the sort key (x[0], x[1])
SortKeyLess(x, y) == x[1] < y[1] \/ (x[1] = y[1] /\ x[2] < y[2])

\* list.sort: a stable sort, done here by insertion
RECURSIVE InsertSorted(_, _)
InsertSorted(sorted, x) ==
    IF sorted = <<>> THEN <<x>>
    ELSE IF SortKeyLess(x, Head(sorted)) THEN <<x>> \o sorted
    ELSE <<Head(sorted)>> \o InsertSorted(Tail(sorted), x)

RECURSIVE SortByKey(_)
SortByKey(list) ==
    IF list = <<>> THEN <<>>
    ELSE InsertSorted(SortByKey(SubSeq(list, 1, Len(list) - 1)), list[Len(list)])

\* choose_heuristic_action(agent_pos, chicken_pos, env)
choose_heuristic_action(agent_pos, c_pos) ==
    IF candidate_actions(agent_pos, c_pos) = <<>> THEN ACTION_STAY
    ELSE SortByKey(candidate_actions(agent_pos, c_pos))[1][2]

\* one iteration of the while loop of run_heuristic_agents_episode: the agent
\* to act steps with the action choose_heuristic_action gives it
HeuristicIter ==
    /\ pc = "loop"
    /\ ~terminated /\ ~truncated /\ current_loop_iter < max_loop_iters
    /\ ret.current_player_to_act \in {0, 1}
    /\ LET agent_pos == IF ret.current_player_to_act = 0 THEN agent1_pos
                                                         ELSE agent2_pos
       IN  EnvStep(choose_heuristic_action(agent_pos, chicken_pos))
    /\ terminated' = ret'.terminated
    /\ truncated' = (ret'.truncated \/
                        (current_loop_iter + 1 >= max_loop_iters
                            /\ ~ret'.terminated /\ ~ret'.truncated))
    /\ current_loop_iter' = current_loop_iter + 1
    /\ history_log' = HistoryAppend(history_log,
            StepRecord(ret.current_player_to_act, terminated', truncated',
                       current_step_in_episode'))
    /\ pc' = "loop"
    /\ UNCHANGED searchVars

\* run_heuristic_agents_episode: the start and the exit of the loop are those
\* of the other drivers
NextHeuristic == DriverStart \/ HeuristicIter \/ DriverExit

SpecHeuristic == Init /\ [][NextHeuristic]_vars

(* ============================== claims =============================== *)
\* a step call was the last call and it returned (did not raise)
StepReturned == call.op = "step" /\ ret.raised = ""

\* the position of the agent whose turn it is
ActorPos == IF current_player_idx = 0 THEN agent1_pos ELSE agent2_pos

(* C1: in every state reached by reset and step calls, the positions of     *)
(* pursuer A, pursuer B and the target are each an in-bounds, non-obstacle  *)
(* cell (they are all None only before the first reset).                    *)
C1_EntitiesOnFreeCells ==
    (call.op = "reset" \/ agent1_pos # None \/ agent2_pos # None
        \/ chicken_pos # None)
    => \A p \in {agent1_pos, agent2_pos, chicken_pos} :
            /\ p # None
            /\ 0 <= p[1] /\ p[1] < L /\ 0 <= p[2] /\ p[2] < H
            /\ p \notin walls

\* a step returned whose intended cell was an obstacle
C1_Witness ==
    /\ StepReturned
    /\ Intended(call.pos_before, call.action) \in walls

(* C2: once a step has returned terminated or truncated, a further step     *)
(* call made without a reset in between raises and changes no engine state. *)
C2_StepAfterEndRaises ==
    [][(/\ StepReturned /\ (ret.terminated \/ ret.truncated)
        /\ call'.op = "step")
       => (ret'.raised # "" /\ UNCHANGED envVars)]_vars

(* C3: a step after which the acting pursuer stands on the target's cell    *)
(* (also by Stay or by an absorbed move) returns reward 99, terminated,     *)
(* not truncated, and -1 as the next player.                                *)
C3_CaptureReturn ==
    [][(/\ call'.op = "step" /\ ret'.raised = ""
        /\ \/ current_player_idx = 0 /\ agent1_pos' = chicken_pos
           \/ current_player_idx = 1 /\ agent2_pos' = chicken_pos)
       => (/\ ret'.reward = 99
           /\ ret'.terminated
           /\ ~ret'.truncated
           /\ ret'.current_player_to_act = -1)]_vars

\* a pursuer captured without leaving its cell
C3_Witness ==
    /\ StepReturned /\ ret.terminated /\ ret.reward = 99
    /\ call.pos_before = chicken_pos

(* C4: a step that ends in capture leaves the target's position, the other  *)
(* pursuer's position and the round counter unchanged, whoever captures.    *)
C4_CaptureFrame ==
    [][(call'.op = "step" /\ ret'.terminated)
       => (/\ chicken_pos' = chicken_pos
           /\ current_step_in_episode' = current_step_in_episode
           /\ (current_player_idx = 0 => agent2_pos' = agent2_pos)
           /\ (current_player_idx = 1 => agent1_pos' = agent1_pos))]_vars

\* pursuer B captured by moving onto the target's cell
C4_Witness ==
    /\ StepReturned /\ ret.terminated /\ call.player = 1
    /\ call.pos_before # agent2_pos /\ agent2_pos = chicken_pos

(* C5: a step call adds exactly 1 to the round counter if and only if it is *)
(* a pursuer-B step that did not capture; every other step call (pursuer A, *)
(* capturing, raising) leaves it unchanged, so it never decreases.          *)
C5_RoundCounter ==
    [][call'.op = "step"
       => IF ret'.raised = "" /\ current_player_idx = 1 /\ ~ret'.terminated
             THEN current_step_in_episode' = current_step_in_episode + 1
             ELSE current_step_in_episode' = current_step_in_episode]_vars

\* a second round was completed
C5_Witness ==
    /\ StepReturned /\ call.player = 1 /\ ~ret.terminated
    /\ current_step_in_episode = 2

(* C6: the turn pointer is pursuer A after reset, pursuer B after a         *)
(* non-capturing pursuer-A step, pursuer A after a non-capturing,           *)
(* non-truncating pursuer-B step; while no step has ended the episode, two  *)
(* consecutive steps are never made by the same pursuer.                    *)
C6_TurnAlternates ==
    [][/\ call'.op = "reset" => current_player_idx' = 0
       /\ (/\ call'.op = "step" /\ ret'.raised = "" /\ ~ret'.terminated
           /\ current_player_idx = 0)
          => current_player_idx' = 1
       /\ (/\ call'.op = "step" /\ ret'.raised = "" /\ ~ret'.terminated
           /\ ~ret'.truncated /\ current_player_idx = 1)
          => current_player_idx' = 0
       /\ (/\ StepReturned /\ ~ret.terminated /\ ~ret.truncated
           /\ call'.op = "step" /\ ret'.raised = "")
          => call'.player # call.player]_vars

\* pursuer B stepped without ending the episode and the turn is back at A
C6_Witness ==
    /\ StepReturned /\ call.player = 1 /\ ~ret.terminated /\ ~ret.truncated
    /\ current_player_idx = 0 /\ current_step_in_episode = 1

(* C7: in an episode run with step limit N >= 1, a step returns truncated   *)
(* exactly when it is the non-capturing pursuer-B step that brings the      *)
(* round counter to N; that step is the 2N-th step call of the episode, it  *)
(* returns terminated = false and reward -1; no pursuer-A step truncates.   *)
C7_TruncationAtLimit ==
    (pc # "idle" /\ call.op = "step")
    => /\ ret.truncated <=> (/\ ~ret.terminated /\ call.player = 1
                             /\ current_step_in_episode = max_episode_steps)
       /\ ret.truncated => (/\ current_loop_iter = 2 * max_episode_steps
                            /\ ~ret.terminated
                            /\ ret.reward = -1)
       /\ (current_loop_iter = 2 * max_episode_steps /\ ~ret.terminated)
          => ret.truncated
       /\ current_loop_iter < 2 * max_episode_steps => ~ret.truncated
       /\ call.player = 0 => ~ret.truncated

\* an episode with step limit 2 was truncated by its 4th step call
C7_Witness ==
    /\ pc = "loop" /\ call.op = "step" /\ ret.truncated
    /\ max_episode_steps = 2 /\ current_loop_iter = 4

(* C8: the metadata of a returned step names the pursuer to move next when  *)
(* the episode continues and is -1 when the step ended the episode, by      *)
(* capture or by truncation.                                                *)
C8_NextPlayerMetadata ==
    StepReturned
    => IF ret.terminated \/ ret.truncated
          THEN ret.current_player_to_act = -1
          ELSE /\ ret.current_player_to_act = current_player_idx
               /\ ret.current_player_to_act \in {0, 1}

(* C9: a step whose intended cell is out of bounds or an obstacle returns   *)
(* without error, leaves the acting pursuer where it was, and its reward    *)
(* still includes the penalty -1 (-1, or 99 when the step captures).        *)
C9_IllegalMoveAbsorbed ==
    [][(/\ call'.op = "step"
        /\ current_player_idx \in {0, 1}
        /\ call'.action \in 0 .. 4
        /\ ActorPos # None
        /\ LET cell == Intended(ActorPos, call'.action)
           IN  \/ cell \in walls
               \/ cell[1] < 0 \/ cell[1] >= L \/ cell[2] < 0 \/ cell[2] >= H)
       => (/\ ret'.raised = ""
           /\ (current_player_idx = 0 => agent1_pos' = agent1_pos)
           /\ (current_player_idx = 1 => agent2_pos' = agent2_pos)
           /\ ret'.reward = -1 + (IF ret'.terminated THEN 100 ELSE 0))]_vars

\* a step returned whose intended cell was out of bounds
C9_Witness ==
    /\ StepReturned /\ ret.reward = -1
    /\ Intended(call.pos_before, call.action) \notin Cells(L, H)
    /\ (call.player = 0 => agent1_pos = call.pos_before)
    /\ (call.player = 1 => agent2_pos = call.pos_before)

(* C10: every returned step has reward -1 or 99, and 99 exactly when it     *)
(* returns terminated, whether or not the move was absorbed and whether or  *)
(* not the step truncates.                                                  *)
C10_RewardValues ==
    StepReturned
    => /\ ret.reward \in {-1, 99}
       /\ ret.reward = 99 <=> ret.terminated

\* a truncating step whose move was absorbed by a wall or the grid's edge
C10_Witness ==
    /\ StepReturned /\ ret.truncated /\ ret.reward = -1
    /\ call.action # ACTION_STAY /\ call.pos_before = agent2_pos

\* the free cells of the grid, spelled out
FreeCells == {p \in (0 .. L - 1) \X (0 .. H - 1) : p \notin walls}

(* C11: after reset, from whatever state it is called in, pursuer A,        *)
(* pursuer B and the target are on three pairwise distinct free cells, the  *)
(* turn is pursuer A's and the round counter is 0; and a reset call can     *)
(* produce every assignment of three distinct free cells (the possible      *)
(* outcomes are enumerated in the fresh state, after a reset, and after     *)
(* every Stay step: mid-episode, after a capture, after a truncation).      *)
C11_ResetPlacement ==
    /\ call.op = "reset"
       => /\ {agent1_pos, agent2_pos, chicken_pos} \subseteq FreeCells
          /\ agent1_pos # agent2_pos
          /\ agent1_pos # chicken_pos
          /\ agent2_pos # chicken_pos
          /\ current_player_idx = 0
          /\ current_step_in_episode = 0
          /\ ret.raised = "" /\ ret.current_player_to_act = 0
    /\ call.action = ACTION_STAY
       => \A p1 \in FreeCells : \A p2 \in FreeCells \ {p1} :
          \A p3 \in FreeCells \ {p1, p2} :
            ENABLED (/\ agent1_pos' = p1 /\ agent2_pos' = p2
                     /\ chicken_pos' = p3 /\ Reset)

\* reset placed the three entities around the wall of a 2 x 3 grid
C11_Witness ==
    /\ call.op = "reset" /\ walls = {<<0, 1>>}
    /\ agent1_pos = <<0, 2>> /\ agent2_pos = <<1, 0>> /\ chicken_pos = <<0, 0>>

(* C12: construction succeeds if and only if height >= 1, width >= 1, every *)
(* given obstacle coordinate is in bounds and the number of cells minus the *)
(* number of distinct obstacle cells is at least 3; then the engine has the *)
(* given dimensions and obstacle set; otherwise it fails with an error and  *)
(* no engine is produced.                                                   *)
C12_ConstructionIff ==
    call.op = "__init__"
    => LET coords == call.internal_wall_coords
           given == {coords[i] : i \in 1 .. Len(coords)}
           ok == /\ call.L >= 1 /\ call.H >= 1
                 /\ \A p \in given : /\ 0 <= p[1] /\ p[1] < call.L
                                     /\ 0 <= p[2] /\ p[2] < call.H
                 /\ call.L * call.H - Cardinality(given) >= 3
       IN  IF ok
              THEN /\ ret.raised = ""
                   /\ L = call.L /\ H = call.H /\ walls = given
              ELSE /\ ret.raised = "ValueError"
                   /\ L = 0 /\ H = 0 /\ walls = {}

\* a 2 x 2 grid was built from one obstacle cell given twice
C12_Witness ==
    /\ call.op = "__init__" /\ ret.raised = ""
    /\ L = 2 /\ H = 2 /\ walls = {<<0, 1>>}
    /\ Len(call.internal_wall_coords) = 2

(* C13: a step call that raises leaves the engine state unchanged: both     *)
(* pursuer positions, the target position, the turn pointer and the round   *)
(* counter are what they were before the call.                              *)
C13_RaiseChangesNothing ==
    [][(call'.op = "step" /\ ret'.raised # "")
       => (/\ agent1_pos' = agent1_pos
           /\ agent2_pos' = agent2_pos
           /\ chicken_pos' = chicken_pos
           /\ current_player_idx' = current_player_idx
           /\ current_step_in_episode' = current_step_in_episode)]_vars

\* mid-episode, with pursuer B to move, a step was given an action outside
\* the 5 and raised
C13_Witness ==
    /\ call.op = "step" /\ ret.raised = "KeyError" /\ call.action = 5
    /\ current_player_idx = 1 /\ agent1_pos # None

(* C14 (as stated): in every step call at most one of the three entities    *)
(* changes position.                                                        *)
C14_OneEntityMoves ==
    [][call'.op = "step"
       => Cardinality({i \in 1 .. 3 :
              <<agent1_pos', agent2_pos', chicken_pos'>>[i]
                  # <<agent1_pos, agent2_pos, chicken_pos>>[i]}) <= 1]_vars

(* C14 (amended): in every step call at most one pursuer changes position,  *)
(* and it is the acting one; the target changes position only in a          *)
(* pursuer-B step that does not capture; so a pursuer-A step and a          *)
(* capturing step move at most one entity, a non-capturing pursuer-B step   *)
(* at most two (pursuer B and the target).                                  *)
C14_MovesPerStep ==
    [][call'.op = "step"
       => /\ (current_player_idx # 0 => agent1_pos' = agent1_pos)
          /\ (current_player_idx # 1 => agent2_pos' = agent2_pos)
          /\ (chicken_pos' # chicken_pos
                => current_player_idx = 1 /\ ~ret'.terminated)]_vars

\* pursuer B stepped to another cell and the target moved in the same call
C14_Witness ==
    /\ StepReturned /\ call.player = 1 /\ ~ret.terminated
    /\ call.pos_before # agent2_pos
    /\ call.action = ACTION_EAST
    /\ chicken_pos = <<1, 2>> /\ agent2_pos = <<0, 1>> /\ agent1_pos = <<0, 0>>
    /\ current_step_in_episode = 1 /\ walls = {}

\* the free cells next to a cell (4-directional)
FreeNeighbours(p) ==
    {q \in {<<p[1] - 1, p[2]>>, <<p[1] + 1, p[2]>>,
            <<p[1], p[2] - 1>>, <<p[1], p[2] + 1>>} :
        /\ q[1] \in 0 .. L - 1
        /\ q[2] \in 0 .. H - 1
        /\ q \notin walls}

\* breadth-first search over the free cells: the number of moves of a
\* shortest path between two free cells, -1 when there is none
RECURSIVE BfsLevel(_, _, _, _)
BfsLevel(seen, frontier, to, d) ==
    IF to \in frontier THEN d
    ELSE IF frontier = {} THEN -1
    ELSE LET next == UNION {FreeNeighbours(p) : p \in frontier} \ seen
         IN  BfsLevel(seen \cup next, next, to, d + 1)

PathDist(from, to) == BfsLevel({from}, {from}, to, 0)

\* the cell the returned action leads to from the start cell
ResultCell ==
    CASE search_result = 0 -> start_pos
      [] search_result = 1 -> <<start_pos[1] - 1, start_pos[2]>>
      [] search_result = 2 -> <<start_pos[1] + 1, start_pos[2]>>
      [] search_result = 3 -> <<start_pos[1], start_pos[2] - 1>>
      [] search_result = 4 -> <<start_pos[1], start_pos[2] + 1>>

(* C15: when start differs from the goal and the goal is reachable through  *)
(* free cells, a_star_search returns a non-Stay action whose cell is free   *)
(* and whose shortest-path distance to the goal is one less than the        *)
(* start's.                                                                 *)
C15_FirstStepOfShortestPath ==
    (/\ search_pc = "done" /\ start_pos # goal_pos
     /\ PathDist(start_pos, goal_pos) >= 0)
    => /\ search_result \in 1 .. 4
       /\ ResultCell \in FreeCells
       /\ PathDist(ResultCell, goal_pos) = PathDist(start_pos, goal_pos) - 1

\* a search returned from a detour around two walls: the goal is 2 cells
\* away on the grid and 6 moves away through free cells
C15_Witness ==
    /\ search_pc = "done" /\ walls = {<<1, 0>>, <<1, 1>>}
    /\ start_pos = <<0, 0>> /\ goal_pos = <<2, 0>>
    /\ search_result = 4 /\ Len(current_node.path) = 6

(* C16: a_star_search returns Stay if and only if start equals goal or no   *)
(* path of free cells connects start to goal.                               *)
C16_StayIff ==
    search_pc = "done"
    => (search_result = 0
            <=> (start_pos = goal_pos \/ PathDist(start_pos, goal_pos) = -1))

\* a search returned Stay for a goal cut off by walls
C16_Witness ==
    /\ search_pc = "done" /\ search_result = 0
    /\ start_pos # goal_pos /\ walls = {<<0, 1>>, <<1, 0>>}
    /\ goal_pos = <<0, 0>> /\ open_list = <<>>

(* C17: on an obstacle-free grid, for start different from goal, the path   *)
(* reconstructed from the popped goal node has exactly Manhattan(start,     *)
(* goal) actions and the returned action brings the start one closer        *)
(* (Manhattan) to the goal; on 5 x 5 from (0,0) to (4,4): 8 actions, first  *)
(* action South or East.                                                    *)
C17_ObstacleFreePath ==
    (search_pc = "done" /\ walls = {} /\ start_pos # goal_pos)
    => LET md(p) == (IF p[1] < goal_pos[1] THEN goal_pos[1] - p[1]
                                           ELSE p[1] - goal_pos[1])
                  + (IF p[2] < goal_pos[2] THEN goal_pos[2] - p[2]
                                           ELSE p[2] - goal_pos[2])
       IN  /\ current_node.position = goal_pos
           /\ Len(current_node.path) = md(start_pos)
           /\ search_result = current_node.path[1]
           /\ md(ResultCell) = md(start_pos) - 1
           /\ (L = 5 /\ H = 5 /\ start_pos = <<0, 0>> /\ goal_pos = <<4, 4>>)
              => Len(current_node.path) = 8 /\ search_result \in {2, 4}

\* the search on the obstacle-free 5 x 5 grid from (0,0) to (4,4) returned
C17_Witness ==
    /\ search_pc = "done" /\ L = 5 /\ H = 5 /\ walls = {}
    /\ start_pos = <<0, 0>> /\ goal_pos = <<4, 4>>
    /\ Len(current_node.path) = 8

\* Manhattan distance between two cells
MDist(p, q) ==
    (IF p[1] < q[1] THEN q[1] - p[1] ELSE p[1] - q[1])
  + (IF p[2] < q[2] THEN q[2] - p[2] ELSE p[2] - q[2])

\* the valid candidate cells of a target on cell c: Stay and the free
\* neighbours
TargetCandidates(c) == {q \in FreeCells : MDist(c, q) <= 1}

\* _chicken_move has run
ChickenMoved == call.op = "_chicken_move"

(* C18: when one pursuer is strictly nearer to the target before its move,  *)
(* the cell the target moves to is a valid candidate that maximises the     *)
(* distance to that nearer pursuer over the valid candidates; the distance  *)
(* to the farther pursuer plays no role, so every candidate at that         *)
(* maximum can be the outcome.                                              *)
C18_FleesNearerPursuer ==
    LET c == IF ChickenMoved THEN call.c_pos ELSE chicken_pos
        d1 == MDist(c, agent1_pos)
        d2 == MDist(c, agent2_pos)
        near == IF d1 < d2 THEN agent1_pos ELSE agent2_pos
        best == {p \in TargetCandidates(c) :
                    \A q \in TargetCandidates(c) : MDist(p, near) >= MDist(q, near)}
    IN  d1 # d2
        => /\ ChickenMoved => chicken_pos \in best
           /\ ~ChickenMoved =>
                \A p \in best : ENABLED (chicken_pos' = p /\ ChickenMove)

\* agent 2 was strictly nearer and the target fled to a cell that is farthest
\* from agent 2 although another such cell is farther from agent 1
C18_Witness ==
    /\ ChickenMoved
    /\ MDist(call.c_pos, agent2_pos) < MDist(call.c_pos, agent1_pos)
    /\ chicken_pos # call.c_pos
    /\ \E q \in TargetCandidates(call.c_pos) :
        /\ MDist(q, agent2_pos) = MDist(chicken_pos, agent2_pos)
        /\ MDist(q, agent1_pos) > MDist(chicken_pos, agent1_pos)

(* C19: when both pursuers are equidistant from the target before its move, *)
(* the cell the target moves to attains the lexicographic maximum of        *)
(* (distance to pursuer A, distance to pursuer B) over the valid            *)
(* candidates.                                                              *)
C19_EquidistantLexMax ==
    (ChickenMoved /\ MDist(call.c_pos, agent1_pos) = MDist(call.c_pos, agent2_pos))
    => /\ chicken_pos \in TargetCandidates(call.c_pos)
       /\ \A q \in TargetCandidates(call.c_pos) :
            \/ MDist(chicken_pos, agent1_pos) > MDist(q, agent1_pos)
            \/ /\ MDist(chicken_pos, agent1_pos) = MDist(q, agent1_pos)
               /\ MDist(chicken_pos, agent2_pos) >= MDist(q, agent2_pos)

\* equidistant pursuers, and the secondary key decided: another candidate is
\* as far from pursuer A as the chosen cell and nearer to pursuer B
C19_Witness ==
    /\ ChickenMoved
    /\ MDist(call.c_pos, agent1_pos) = MDist(call.c_pos, agent2_pos)
    /\ \E q \in TargetCandidates(call.c_pos) :
        /\ MDist(q, agent1_pos) = MDist(chicken_pos, agent1_pos)
        /\ MDist(q, agent2_pos) < MDist(chicken_pos, agent2_pos)

\* the selection key of candidate p for a target on c: the distance to the
\* nearer pursuer, or the pair of distances when the pursuers are equidistant
SelectionKey(p, c) ==
    LET d1 == MDist(c, agent1_pos)
        d2 == MDist(c, agent2_pos)
    IN  IF d1 < d2 THEN <<MDist(p, agent1_pos), 0>>
        ELSE IF d2 < d1 THEN <<MDist(p, agent2_pos), 0>>
        ELSE <<MDist(p, agent1_pos), MDist(p, agent2_pos)>>

KeyLess(x, y) == x[1] < y[1] \/ (x[1] = y[1] /\ x[2] < y[2])

\* the valid candidates whose key no candidate exceeds
TiedBest(c) ==
    {p \in TargetCandidates(c) :
        \A q \in TargetCandidates(c) : ~KeyLess(SelectionKey(p, c), SelectionKey(q, c))}

(* C20: the possible outcomes of one target move are exactly the valid      *)
(* candidates tied at the maximum of the applicable selection key: before   *)
(* the move every tied-best candidate can be chosen, and after it the       *)
(* target is on a tied-best candidate.                                      *)
C20_OutcomesAreTiedBest ==
    /\ ChickenMoved => chicken_pos \in TiedBest(call.c_pos)
    /\ ~ChickenMoved =>
        /\ TiedBest(chicken_pos) # {}
        /\ \A p \in TiedBest(chicken_pos) :
                ENABLED (chicken_pos' = p /\ ChickenMove)

\* a move with three tied-best candidates and a candidate of lower key; the
\* target took one that is not the smallest cell
C20_Witness ==
    /\ ChickenMoved
    /\ Cardinality(TiedBest(call.c_pos)) >= 3
    /\ TargetCandidates(call.c_pos) \ TiedBest(call.c_pos) # {}
    /\ \E q \in TiedBest(call.c_pos) :
        q[1] < chicken_pos[1] \/ (q[1] = chicken_pos[1] /\ q[2] < chicken_pos[2])

\* the driver's episode is running: reset was called and no step has ended it
EpisodeRunning == pc = "loop" /\ ~terminated /\ ~truncated

\* the target is on the cell of a pursuer
TargetOnPursuer == chicken_pos \in {agent1_pos, agent2_pos}

(* C21 (as stated): whenever a pursuer and the target are on the same cell,  *)
(* the episode has ended by capture; no running state has the target on a   *)
(* pursuer's cell.                                                          *)
C21_SharedCellMeansCapture ==
    (pc = "loop" /\ TargetOnPursuer) => terminated

(* C21 (amended): a running state has the target on a pursuer's cell only   *)
(* after the target's own avoidance move put it there: at least one round   *)
(* has completed since reset, and the target is never on pursuer A's cell   *)
(* while pursuer B is to move.                                              *)
C21_SharedCellOnlyByTargetMove ==
    (EpisodeRunning /\ TargetOnPursuer)
    => /\ current_step_in_episode >= 1
       /\ current_player_idx = 1 => chicken_pos # agent1_pos

\* a running episode in which the target stands on pursuer B's cell and
\* pursuer A has moved since
C21_Witness ==
    /\ EpisodeRunning
    /\ chicken_pos = agent2_pos
    /\ current_player_idx = 1
    /\ call.op = "step" /\ call.player = 0

(* C22: the episode log of a driver is one post-reset record followed by    *)
(* one record per step call, in call order: its length is 1 + the number of *)
(* step calls made, and each record carries the flags and the round counter *)
(* as they were right after its call (the k-th call is the acting agent's   *)
(* (k-1) mod 2 and, while the episode runs, leaves k div 2 rounds).         *)
C22_LogOneRecordPerCall ==
    pc \in {"loop", "done"}
    => /\ Len(history_log) = 1 + current_loop_iter
       /\ history_log[1] = [acting_agent |-> 0, terminated |-> FALSE,
                            truncated |-> FALSE, round_step |-> 0]
       /\ \A k \in 1 .. current_loop_iter :
            /\ history_log[k + 1].acting_agent = (k - 1) % 2
            /\ k < current_loop_iter =>
                /\ ~history_log[k + 1].terminated
                /\ ~history_log[k + 1].truncated
                /\ history_log[k + 1].round_step = k \div 2
       /\ current_loop_iter >= 1 =>
            /\ history_log[Len(history_log)].terminated = ret.terminated
            /\ history_log[Len(history_log)].truncated = ret.truncated
            /\ history_log[Len(history_log)].round_step = current_step_in_episode

\* an episode of two rounds ended by truncation: four step calls, five records
C22_Witness ==
    /\ pc = "done"
    /\ current_loop_iter = 4
    /\ Len(history_log) = 5
    /\ history_log[5].truncated /\ history_log[5].round_step = 2
    /\ history_log[3].round_step = 1

(* C23: no step call returns terminated and truncated together; a capturing *)
(* step of pursuer B in the round that would have reached the step limit    *)
(* reports the capture only and leaves the round counter where it was (the  *)
(* k-th call of an episode, k even, is B's and follows k / 2 - 1 rounds).   *)
C23_NeverTerminatedAndTruncated ==
    StepReturned
    => /\ ~(ret.terminated /\ ret.truncated)
       /\ (pc = "loop" /\ ret.terminated /\ call.player = 1)
          => /\ ret.status = "capture"
             /\ current_step_in_episode = (current_loop_iter \div 2) - 1
             /\ current_step_in_episode < max_episode_steps

\* pursuer B captured on the last step call the limit allows: the round that
\* would have been the second and last one was not counted
C23_Witness ==
    /\ StepReturned /\ pc = "loop"
    /\ call.player = 1 /\ ret.terminated /\ ~ret.truncated
    /\ max_episode_steps = 2
    /\ current_loop_iter = 4
    /\ current_step_in_episode = 1

(* C24: a non-capturing step of pursuer A changes only pursuer A's position *)
(* and the turn pointer: pursuer B's position, the target's position and    *)
(* the round counter stay as they were (the target's avoidance move is not  *)
(* made), and pursuer B is to move next.                                    *)
C24_PursuerAStepFrame ==
    [][(/\ call'.op = "step" /\ ret'.raised = ""
        /\ current_player_idx = 0 /\ ~ret'.terminated)
       => (/\ agent2_pos' = agent2_pos
           /\ chicken_pos' = chicken_pos
           /\ current_step_in_episode' = current_step_in_episode
           /\ current_player_idx' = 1
           /\ UNCHANGED <<L, H, walls, max_episode_steps>>)]_vars

\* pursuer A moved to another cell without capturing, next to a target that
\* would have had to flee
C24_Witness ==
    /\ StepReturned /\ call.player = 0 /\ ~ret.terminated
    /\ call.pos_before # agent1_pos
    /\ current_player_idx = 1
    /\ (IF agent1_pos[1] < chicken_pos[1] THEN chicken_pos[1] - agent1_pos[1]
                                          ELSE agent1_pos[1] - chicken_pos[1])
     + (IF agent1_pos[2] < chicken_pos[2] THEN chicken_pos[2] - agent1_pos[2]
                                          ELSE agent1_pos[2] - chicken_pos[2]) = 1

\* the cell position + delta of an action, computed without any check
IntendedCell(pos, action) ==
    CASE action = 0 -> pos
      [] action = 1 -> <<pos[1] - 1, pos[2]>>
      [] action = 2 -> <<pos[1] + 1, pos[2]>>
      [] action = 3 -> <<pos[1], pos[2] - 1>>
      [] action = 4 -> <<pos[1], pos[2] + 1>>

\* the position, after the call, of the agent that acted in it
ActedPos == IF call.player = 0 THEN agent1_pos ELSE agent2_pos

(* C25: when the intended cell of a step is in bounds and not an obstacle,  *)
(* the acting pursuer is on exactly that cell after the move, whether or    *)
(* not the other pursuer or the target is on it: only walls and bounds      *)
(* block a move.                                                            *)
C25_LegalMoveTaken ==
    (StepReturned /\ IntendedCell(call.pos_before, call.action) \in FreeCells)
    => ActedPos = IntendedCell(call.pos_before, call.action)

\* pursuer B moved onto the cell pursuer A stands on
C25_Witness ==
    /\ StepReturned /\ call.player = 1
    /\ call.pos_before # agent2_pos
    /\ agent2_pos = agent1_pos
    /\ agent2_pos = IntendedCell(call.pos_before, call.action)

(* C26: in every reachable state the target's candidate set holds the       *)
(* target's own cell (Stay), so it is never empty and the 'no candidate'    *)
(* branch of the avoidance move is never taken; a step moves the target     *)
(* only to a valid cell at Manhattan distance at most 1 from its cell.      *)
C26_TargetHasCandidates ==
    [][(chicken_pos # None /\ call'.op = "step")
       => (/\ chicken_pos \in ValidNextPositions(chicken_pos)
           /\ chicken_pos' \in FreeCells
           /\ MDist(chicken_pos, chicken_pos') <= 1)]_vars

\* a first round was completed: the target made its avoidance move in the
\* step of pursuer B and stands 2 cells from B and 3 from A
C26_Witness ==
    /\ StepReturned /\ call.player = 1 /\ ~ret.terminated
    /\ pc = "loop"
    /\ current_step_in_episode = 1
    /\ chicken_pos \notin {agent1_pos, agent2_pos}
    /\ MDist(chicken_pos, agent2_pos) = 2
    /\ MDist(chicken_pos, agent1_pos) = 3

(* C27: a step of pursuer B whose move does not land on the target's cell   *)
(* returns terminated = false, with the plain step penalty, also when the   *)
(* target's avoidance move then puts the target on a pursuer's cell: only   *)
(* a pursuer's own move captures.                                           *)
C27_TargetMoveNeverCaptures ==
    [][(/\ call'.op = "step" /\ ret'.raised = ""
        /\ current_player_idx = 1 /\ agent2_pos' # chicken_pos)
       => (/\ ~ret'.terminated
           /\ ret'.reward = -1
           /\ ret'.status # "capture")]_vars

\* pursuer B moved next to the target, the target then moved onto B's cell,
\* and the step returned without capture
C27_Witness ==
    /\ StepReturned /\ call.player = 1
    /\ call.pos_before # agent2_pos
    /\ chicken_pos = agent2_pos
    /\ ~ret.terminated /\ ret.reward = -1

\* the positions of the nodes of a frontier
FrontierPositions(open) == {open[i].position : i \in 1 .. Len(open)}

(* C28: during an a_star_search call a position of the closed set is never  *)
(* pushed onto the frontier again and never expanded again: the node popped *)
(* by an iteration is not yet closed, the closed set only grows, and the    *)
(* positions the iteration adds to the frontier are not closed.             *)
C28_ClosedNeverReopened ==
    [][(search_pc = "loop" /\ open_list # <<>>)
       => (/\ current_node'.position \notin closed_set
           /\ closed_set \subseteq closed_set'
           /\ (FrontierPositions(open_list') \ FrontierPositions(open_list))
                \cap closed_set' = {})]_vars

\* an iteration expanded a node all of whose free neighbours were closed: the
\* frontier got nothing new
C28_Witness ==
    /\ search_pc = "loop"
    /\ Cardinality(closed_set) >= 4
    /\ current_node.position \in closed_set
    /\ \A q \in FreeCells :
        MDist(q, current_node.position) = 1 => q \in closed_set
    /\ \E q \in FreeCells : MDist(q, current_node.position) = 1
    /\ open_list # <<>>

\* breadth-first search from a set of cells at distance d: the function from
\* every free cell that can be reached to its number of moves
RECURSIVE BfsMap(_, _, _)
BfsMap(dist, frontier, d) ==
    IF frontier = {} THEN dist
    ELSE LET next == UNION {FreeNeighbours(p) : p \in frontier} \ DOMAIN dist
         IN  BfsMap(dist @@ [q \in next |-> d + 1], next, d + 1)

\* the frontier node of a position
FrontierNode(open, p) == open[CHOOSE i \in 1 .. Len(open) : open[i].position = p]

(* C29: when an iteration generates a successor position that is already in *)
(* the frontier, the frontier entry is replaced if and only if the new cost *)
(* g (the expanded node's g + 1) is strictly lower, and is otherwise left   *)
(* as it was; so the g of a frontier position never increases, and it is    *)
(* one more than the smallest distance from the start among its closed      *)
(* neighbours.                                                              *)
C29_FrontierRelaxation ==
    [][(search_pc = "loop" /\ closed_set' # closed_set)
       => LET dist == BfsMap([q \in {start_pos} |-> 0], {start_pos}, 0)
          IN  \A p \in FrontierPositions(open_list') :
                LET new == FrontierNode(open_list', p)
                    generated == MDist(p, current_node'.position) = 1
                    around == {dist[q] : q \in {c \in closed_set' : MDist(p, c) = 1}}
                IN  /\ p \in FrontierPositions(open_list) =>
                        LET old == FrontierNode(open_list, p)
                        IN  /\ new.g <= old.g
                            /\ (new # old) <=>
                                  (generated /\ current_node'.g + 1 < old.g)
                            /\ new # old => new.g = current_node'.g + 1
                    /\ around # {}
                    /\ new.g = 1 + CHOOSE d \in around : \A e \in around : d <= e]_vars

\* the search on the 4 x 4 grid has replaced the frontier entry of (3,1): first
\* reached from (2,1) at cost 5, then from (3,2) at cost 3
C29_Witness ==
    /\ search_pc = "loop"
    /\ L = 4 /\ H = 4 /\ start_pos = <<2, 3>>
    /\ <<2, 1>> \in closed_set /\ <<3, 2>> \in closed_set
    /\ <<3, 1>> \in FrontierPositions(open_list)
    /\ FrontierNode(open_list, <<3, 1>>).g = 3
    /\ FrontierNode(open_list, <<3, 1>>).path = <<2, 3, 3>>

(* C30: every a_star_search call returns after at most as many frontier    *)
(* pops as there are free cells, for reachable and unreachable goals alike: *)
(* every iteration either ends the call or closes one more free cell, and   *)
(* a pop ends the call only at the goal, which is not closed. Every         *)
(* avoidance move returns in one pass over the 5 actions: its candidates    *)
(* are at most 5.                                                           *)
C30_CallsTerminate ==
    [][/\ search_pc = "call" => (search_pc' = "loop" /\ closed_set' = {})
       /\ search_pc = "loop" =>
            /\ closed_set' \subseteq FreeCells
            /\ \/ search_pc' = "done"
               \/ /\ search_pc' = "loop"
                  /\ Cardinality(closed_set') = Cardinality(closed_set) + 1
            /\ (search_pc' = "done" /\ open_list # <<>>) =>
                    /\ current_node'.position = goal_pos
                    /\ goal_pos \notin closed_set'
            /\ Cardinality(closed_set')
                    + (IF search_pc' = "done" /\ open_list # <<>> THEN 1 ELSE 0)
                  <= Cardinality(FreeCells)
       /\ (search_pc = "idle" /\ call.op = "step") =>
            /\ call'.op = "_chicken_move"
            /\ Cardinality(TargetCandidates(chicken_pos)) <= 5
            /\ chicken_pos' \in TargetCandidates(chicken_pos)]_vars

\* a search for a goal cut off by walls returned after popping every cell that
\* can be reached, 12 of the 13 free cells
C30_Witness ==
    /\ search_pc = "done" /\ search_result = 0
    /\ L = 4 /\ H = 4 /\ goal_pos = <<0, 0>>
    /\ open_list = <<>>
    /\ Cardinality(closed_set) = 12
    /\ Cardinality(FreeCells) = 13

\* the selection key of candidate p for a target on c with the pursuers on a1
\* and a2
FleeKey(p, c, a1, a2) ==
    IF MDist(c, a1) < MDist(c, a2) THEN <<MDist(p, a1), 0>>
    ELSE IF MDist(c, a2) < MDist(c, a1) THEN <<MDist(p, a2), 0>>
    ELSE <<MDist(p, a1), MDist(p, a2)>>

\* the candidates of a target on c whose key no candidate exceeds
TiedBestOf(c, a1, a2) ==
    {p \in TargetCandidates(c) :
        \A q \in TargetCandidates(c) :
            ~KeyLess(FleeKey(p, c, a1, a2), FleeKey(q, c, a1, a2))}

\* the transition is a call of step (when the driver leaves its loop the last
\* call stays recorded and pc changes)
StepCalled == call'.op = "step" /\ pc' = pc

(* C31: given the engine state and the action, a pursuer-A step and any      *)
(* capturing step have exactly one possible result: the next positions,     *)
(* turn pointer, round counter, reward, flags and metadata are the values   *)
(* written out below as functions of the state and the action. In a         *)
(* non-capturing pursuer-B step everything but the target's cell is such a  *)
(* function too, and the target's cell is one of the tied-best candidates:  *)
(* the step has one result when there is one such candidate.                *)
C31_StepDeterminism ==
    [][(StepCalled /\ ret'.raised = "")
       => LET player == current_player_idx
              cell == IntendedCell(ActorPos, call'.action)
              landed == IF cell \in FreeCells THEN cell ELSE ActorPos
              captures == landed = chicken_pos
              a1 == IF player = 0 THEN landed ELSE agent1_pos
              a2 == IF player = 1 THEN landed ELSE agent2_pos
              rounds == current_step_in_episode + 1
          IN  /\ agent1_pos' = a1
              /\ agent2_pos' = a2
              /\ (player = 0 \/ captures) =>
                    /\ chicken_pos' = chicken_pos
                    /\ current_step_in_episode' = current_step_in_episode
                    /\ current_player_idx' = (IF captures THEN player ELSE 1)
                    /\ ret' = [raised |-> "",
                               reward |-> IF captures THEN 99 ELSE -1,
                               terminated |-> captures,
                               truncated |-> FALSE,
                               current_player_to_act |->
                                    IF captures THEN -1 ELSE 1,
                               status |-> IF captures THEN "capture" ELSE ""]
              /\ (player = 1 /\ ~captures) =>
                    /\ chicken_pos' \in TiedBestOf(chicken_pos, a1, a2)
                    /\ current_step_in_episode' = rounds
                    /\ current_player_idx' = 0
                    /\ ret' = [raised |-> "", reward |-> -1,
                               terminated |-> FALSE,
                               truncated |-> (rounds >= max_episode_steps),
                               current_player_to_act |-> 0,
                               status |-> IF rounds >= max_episode_steps
                                             THEN "truncated" ELSE ""]]_vars

\* pursuer B captured in the second round by a move that a wall or the grid's
\* edge absorbed
C31_Witness ==
    /\ StepReturned /\ call.player = 1 /\ ret.terminated
    /\ current_step_in_episode = 1
    /\ call.action # ACTION_STAY
    /\ call.pos_before = agent2_pos

(* C32: passing a seed to reset makes the placement reproducible: a reset   *)
(* call with the seed of the reset call before it puts pursuer A, pursuer B *)
(* and the target on the cells that call put them on (the draws of that     *)
(* call are the only random draws made in between).                         *)
C32_SeededResetReproducible ==
    [][(/\ call.op = "reset" /\ call.seed # None
        /\ call'.op = "reset" /\ call'.seed = call.seed)
       => (/\ agent1_pos' = agent1_pos
           /\ agent2_pos' = agent2_pos
           /\ chicken_pos' = chicken_pos)]_vars

(* C33: choose_heuristic_action returns the action whose intended cell      *)
(* (position + delta, no validity check) has the smallest Manhattan         *)
(* distance to the target, ties going to the lowest action id; it returns   *)
(* Stay if and only if the agent is on the target's cell. Nothing makes the *)
(* intended cell valid (it can be a wall); for an agent and a target on     *)
(* cells of the grid it is nearer to the target than the agent is, and so   *)
(* it is within the bounds.                                                 *)
C33_HeuristicAction ==
    [][(pc = "loop" /\ StepCalled)
       => LET a == call'.action
              d(x) == MDist(IntendedCell(ActorPos, x), chicken_pos)
          IN  /\ a \in 0 .. 4
              /\ \A b \in 0 .. 4 : d(a) < d(b) \/ (d(a) = d(b) /\ a <= b)
              /\ a = 0 <=> ActorPos = chicken_pos
              /\ a # 0 =>
                    /\ d(a) = d(0) - 1
                    /\ IntendedCell(ActorPos, a)[1] \in 0 .. L - 1
                    /\ IntendedCell(ActorPos, a)[2] \in 0 .. H - 1]_vars

\* a pursuer chose a move into a wall, which absorbed it, although a free
\* cell next to the pursuer is as near to the target as the wall is
C33_Witness ==
    /\ pc = "loop" /\ StepReturned
    /\ IntendedCell(call.pos_before, call.action) \in walls
    /\ ActedPos = call.pos_before
    /\ call.player = 0
    /\ \E q \in FreeCells :
        /\ MDist(q, call.pos_before) = 1
        /\ MDist(q, chicken_pos) = MDist(call.pos_before, chicken_pos) - 1

(* C34: in every state reached by reset and step calls the engine's stored  *)
(* turn index is 0 or 1, also after a capture and after a truncation, and   *)
(* no step call has raised the error of the invalid-turn-index guard.       *)
C34_TurnIndexValid ==
    /\ current_player_idx \in {0, 1}
    /\ ret.raised # "ValueError"

\* pursuer B captured: the metadata names no next player and the stored turn
\* index is still pursuer B's
C34_Witness ==
    /\ StepReturned /\ ret.terminated /\ call.player = 1
    /\ ret.current_player_to_act = -1
    /\ current_player_idx = 1

(* C35: for a step limit N >= 1 and any choice of the pursuers' actions, a   *)
(* driver's episode makes at most 2 * N step calls: while it runs fewer     *)
(* than 2 * N were made, after the 2 * N-th it has ended, and it ends by a  *)
(* capture or by the engine's truncation. The loop limit 2 * N + 10 is      *)
(* never reached and the loop is never left by its break, so the driver     *)
(* never sets truncated itself.                                             *)
C35_EpisodeEndsWithinLimit ==
    pc # "idle"
    => /\ current_loop_iter <= 2 * max_episode_steps
       /\ current_loop_iter < max_loop_iters
       /\ Len(history_log) = current_loop_iter + 1
       /\ current_loop_iter = 2 * max_episode_steps => (terminated \/ truncated)
       /\ terminated <=> (call.op = "step" /\ ret.terminated)
       /\ truncated <=> (call.op = "step" /\ ret.truncated)
       /\ (pc = "loop" /\ ~terminated /\ ~truncated)
            => ret.current_player_to_act \in {0, 1}
       /\ pc = "done" => (ret.terminated \/ ret.truncated)
       /\ pc = "done" => ret.status \in {"capture", "truncated"}

\* an episode with step limit 2 ran to its 4th step call and was ended there
\* by the engine's truncation
C35_Witness ==
    /\ pc = "done" /\ truncated /\ ret.truncated
    /\ max_episode_steps = 2 /\ current_loop_iter = 4
    /\ Len(history_log) = 5

(* C36: for a step limit N >= 1, in every state reached by reset and any     *)
(* sequence of step calls the round counter is at most N; it is N in the    *)
(* state a truncating step leaves and below N while the episode has not     *)
(* ended (here: in the state reset leaves).                                 *)
C36_RoundCounterAtMostLimit ==
    /\ current_step_in_episode <= max_episode_steps
    /\ call.op = "reset" => current_step_in_episode < max_episode_steps
    /\ (StepReturned /\ ret.truncated)
        => current_step_in_episode = max_episode_steps

\* the pursuer a target on cell c flees: pursuer A when it is nearer or both
\* are equidistant, pursuer B when it is strictly nearer
FledPursuer(c) ==
    IF MDist(c, agent1_pos) <= MDist(c, agent2_pos) THEN agent1_pos
                                                     ELSE agent2_pos

(* C37: a target move never decreases the target's Manhattan distance to    *)
(* the pursuer it flees: the distance to that pursuer after the move is at  *)
(* least the distance before it.                                            *)
C37_NeverNearerToFledPursuer ==
    ChickenMoved
    => MDist(chicken_pos, FledPursuer(call.c_pos))
            >= MDist(call.c_pos, FledPursuer(call.c_pos))

\* a cornered target stayed where it was: it had two free neighbours and each
\* of them was nearer to the pursuer it flees, pursuer B
C37_Witness ==
    /\ ChickenMoved
    /\ chicken_pos = call.c_pos
    /\ FledPursuer(call.c_pos) = agent2_pos
    /\ agent1_pos # agent2_pos
    /\ Cardinality(TargetCandidates(call.c_pos)) = 3
    /\ \A q \in TargetCandidates(call.c_pos) \ {call.c_pos} :
            MDist(q, agent2_pos) < MDist(call.c_pos, agent2_pos)

(* C38: at every iteration of the a_star_search loop each grid position is  *)
(* the position of at most one frontier node, and no position is in the     *)
(* frontier and in the closed set at the same time.                         *)
C38_FrontierDistinctAndOpen ==
    search_pc \in {"loop", "done"}
    => /\ \A i, j \in 1 .. Len(open_list) :
            open_list[i].position = open_list[j].position => i = j
       /\ FrontierPositions(open_list) \cap closed_set = {}

\* the search on the 4 x 4 grid after the frontier entry of (3,1) was replaced:
\* the frontier holds (3,1) once, at its new cost, among 2 nodes or more, and
\* 8 cells are closed
C38_Witness ==
    /\ search_pc = "loop"
    /\ L = 4 /\ H = 4 /\ start_pos = <<2, 3>>
    /\ Cardinality(closed_set) >= 8
    /\ Len(open_list) >= 2
    /\ <<3, 1>> \in FrontierPositions(open_list)
    /\ FrontierNode(open_list, <<3, 1>>).g = 3

\* the cell reached from a cell by the first k actions of a path
RECURSIVE CellAfter(_, _, _)
CellAfter(from, path, k) ==
    IF k = 0 THEN from
    ELSE IntendedCell(CellAfter(from, path, k - 1), path[k])

(* C39: whenever a_star_search has popped a node from the frontier, the      *)
(* node's g is the shortest-path distance over the free cells from the      *)
(* start to the node's position, and the actions found by following its     *)
(* parent links back to the start are g unit moves that lead from the start *)
(* through free cells to that position.                                     *)
C39_PoppedNodeOptimal ==
    (search_pc \in {"loop", "done"} /\ current_node # NoNode)
    => LET dist == BfsMap([q \in {start_pos} |-> 0], {start_pos}, 0)
           node == current_node
       IN  /\ node.position \in DOMAIN dist
           /\ node.g = dist[node.position]
           /\ Len(node.path) = node.g
           /\ \A k \in 1 .. Len(node.path) :
                /\ node.path[k] \in 1 .. 4
                /\ CellAfter(start_pos, node.path, k) \in FreeCells
           /\ CellAfter(start_pos, node.path, Len(node.path)) = node.position

\* the search on the 4 x 4 grid popped (3,1), whose frontier entry had been
\* replaced: its cost is 3 and its path South, West, West, not the path of 5
\* moves by which it was reached first
C39_Witness ==
    /\ search_pc = "loop"
    /\ L = 4 /\ H = 4 /\ start_pos = <<2, 3>>
    /\ current_node.position = <<3, 1>>
    /\ current_node.g = 3
    /\ current_node.path = <<2, 3, 3>>
    /\ <<2, 1>> \in closed_set

====
